---- MODULE Spec2Model ----
(***************************************************************************)
(* fexp: a dataset layer over an LMDB store (src/fexp/lmdb.py) and the     *)
(* list-file helpers it uses (src/fexp/utils/__init__.py).                 *)
(*                                                                         *)
(* Strings are Python 2 byte strings: sequences of character codes.  The  *)
(* store maps keys (strings) to values (strings); the side key file is a  *)
(* text (a string) or absent.                                              *)
(***************************************************************************)
EXTENDS Integers, Sequences, FiniteSets, TLC

(***************************************************************************)
(* Bounds of the model.                                                    *)
(***************************************************************************)
\* longest `cases` argument handed to build_db
MaxCases == 2
\* most arrays the loader returns for one case
MaxArrays == 2

(***************************************************************************)
(* String literals of the source, as character codes.                      *)
(***************************************************************************)
\* '_len'
S_len == <<95, 108, 101, 110>>
\* '_metadata'
S_metadata == <<95, 109, 101, 116, 97, 100, 97, 116, 97>>
\* '_'
S_us == <<95>>
\* '\n'
S_nl == <<10>>
\* 'None', what str() makes of a key the store does not hold
S_None == <<78, 111, 110, 101>>
\* '{"shape": ['
S_shape_open == <<123, 34, 115, 104, 97, 112, 101, 34, 58, 32, 91>>
\* '], "dtype": "'
S_dtype_open == <<93, 44, 32, 34, 100, 116, 121, 112, 101, 34, 58, 32, 34>>
\* '"}'
S_close == <<34, 125>>
\* ', '
S_comma == <<44, 32>>
\* 'uint8'
S_uint8 == <<117, 105, 110, 116, 56>>
\* 'uint16'
S_uint16 == <<117, 105, 110, 116, 49, 54>>

(***************************************************************************)
(* Python string operations.                                               *)
(***************************************************************************)
\* the characters str.strip() removes
IsSpace(c) == c \in {9, 10, 11, 12, 13, 32}

RECURSIVE LStrip(_)
LStrip(s) == IF s # <<>> /\ IsSpace(Head(s)) THEN LStrip(Tail(s)) ELSE s

RECURSIVE RStrip(_)
RStrip(s) ==
  IF s # <<>> /\ IsSpace(s[Len(s)]) THEN RStrip(SubSeq(s, 1, Len(s) - 1)) ELSE s

\* line.strip()
Strip(s) == RStrip(LStrip(s))

\* s[p .. p+Len(t)-1] = t
MatchAt(s, t, p) == p >= 1 /\ p + Len(t) - 1 <= Len(s) /\ SubSeq(s, p, p + Len(t) - 1) = t

\* t in s
Contains(s, t) == \E p \in 1..(Len(s) + 1) : MatchAt(s, t, p)

\* s.endswith(t)
EndsWith(s, t) == MatchAt(s, t, Len(s) - Len(t) + 1)

\* s.find(t), 1-based; 0 when t is not in s
Find(s, t) ==
  IF Contains(s, t)
    THEN CHOOSE p \in 1..(Len(s) + 1) :
           MatchAt(s, t, p) /\ \A q \in 1..(p - 1) : ~MatchAt(s, t, q)
    ELSE 0

\* s[:-n]
DropLast(s, n) == SubSeq(s, 1, Len(s) - n)

\* byte-wise s < t, the order of the store's cursor
RECURSIVE StrLess(_, _)
StrLess(s, t) ==
  IF t = <<>> THEN FALSE
  ELSE IF s = <<>> THEN TRUE
  ELSE IF Head(s) # Head(t) THEN Head(s) < Head(t)
  ELSE StrLess(Tail(s), Tail(t))

\* '{}'.format(n) and json.dumps(n) of a non-negative int
RECURSIVE IntStr(_)
IntStr(n) == IF n < 10 THEN <<48 + n>> ELSE IntStr(n \div 10) \o <<48 + (n % 10)>>

IsDigits(s) == s # <<>> /\ \A p \in 1..Len(s) : s[p] \in 48..57

RECURSIVE DigitsVal(_)
DigitsVal(s) ==
  IF s = <<>> THEN 0 ELSE 10 * DigitsVal(DropLast(s, 1)) + (s[Len(s)] - 48)

\* int(json.loads(text)): the number, or -1 for the ValueError of a text that is
\* no JSON number
ParseInt(s) == IF IsDigits(s) THEN DigitsVal(s) ELSE -1

(***************************************************************************)
(* ByteCodec: numpy arrays and their stored form.  An array is a record   *)
(* [shape, dtype, data]: data holds the elements in row-major order.      *)
(***************************************************************************)
\* numpy's element size of a dtype name; 0 for a name numpy does not know
ItemSize(dtype) == IF dtype = S_uint8 THEN 1 ELSE IF dtype = S_uint16 THEN 2 ELSE 0

RECURSIVE Pow256(_)
Pow256(k) == IF k = 0 THEN 1 ELSE 256 * Pow256(k - 1)

RECURSIVE Prod(_)
Prod(shape) == IF shape = <<>> THEN 1 ELSE Head(shape) * Prod(Tail(shape))

\* the little-endian bytes of one element
ElemBytes(v, size) == [k \in 1..size |-> (v \div Pow256(k - 1)) % 256]

RECURSIVE DataBytes(_, _)
DataBytes(data, size) ==
  IF data = <<>> THEN <<>> ELSE ElemBytes(Head(data), size) \o DataBytes(Tail(data), size)

\* np.ascontiguousarray(image).tobytes()
ToBytes(a) == DataBytes(a.data, ItemSize(a.dtype))

RECURSIVE JoinInts(_)
JoinInts(ns) ==
  IF ns = <<>> THEN <<>>
  ELSE IF Len(ns) = 1 THEN IntStr(ns[1])
  ELSE IntStr(ns[1]) \o S_comma \o JoinInts(Tail(ns))

\* json.dumps(dict(shape=data.shape, dtype=str(data.dtype)))
DumpsMeta(shape, dtype) ==
  S_shape_open \o JoinInts(shape) \o S_dtype_open \o dtype \o S_close

RECURSIVE SplitOn(_, _)
SplitOn(s, sep) ==
  LET p == Find(s, sep)
  IN IF p = 0 THEN <<s>>
     ELSE <<SubSeq(s, 1, p - 1)>> \o SplitOn(SubSeq(s, p + Len(sep), Len(s)), sep)

\* json.loads(str(meta_buf)): [ok, shape, dtype]; ok is FALSE for the ValueError of a
\* text that is no JSON object of this form (str(None) among them)
LoadsMeta(text) ==
  LET p == Find(text, S_dtype_open)
      shapeText == SubSeq(text, Len(S_shape_open) + 1, p - 1)
      parts == IF shapeText = <<>> THEN <<>> ELSE SplitOn(shapeText, S_comma)
      dtype == SubSeq(text, p + Len(S_dtype_open), Len(text) - Len(S_close))
  IN IF /\ MatchAt(text, S_shape_open, 1)
        /\ p > Len(S_shape_open)
        /\ EndsWith(text, S_close)
        /\ p + Len(S_dtype_open) <= Len(text) - Len(S_close) + 1
        /\ \A q \in 1..Len(parts) : IsDigits(parts[q])
       THEN [ok |-> TRUE, shape |-> [q \in 1..Len(parts) |-> DigitsVal(parts[q])],
             dtype |-> dtype]
       ELSE [ok |-> FALSE, shape |-> <<>>, dtype |-> <<>>]

\* one element read back from its bytes
ElemVal(buf, at, size) ==
  LET f[k \in 0..size] == IF k = 0 THEN 0 ELSE f[k - 1] + buf[at + k] * Pow256(k - 1)
  IN f[size]

\* np.ndarray(shape, dtype, buffer=buf): [ok, array]; ok is FALSE for the TypeError of
\* an unknown dtype or of a buffer smaller than the array
NdArray(shape, dtype, buf) ==
  LET size == ItemSize(dtype)
      n == Prod(shape)
  IN IF size = 0 \/ Len(buf) < n * size
       THEN [ok |-> FALSE, array |-> [shape |-> <<>>, dtype |-> <<>>, data |-> <<>>]]
       ELSE [ok |-> TRUE,
             array |-> [shape |-> shape, dtype |-> dtype,
                        data |-> [j \in 1..n |-> ElemVal(buf, (j - 1) * size, size)]]]

(***************************************************************************)
(* utils: read_list and write_list, on the text of the file.              *)
(***************************************************************************)
RECURSIVE WriteLines(_)
WriteLines(input_list) ==
  IF input_list = <<>> THEN <<>>
  ELSE Strip(Head(input_list)) \o S_nl \o WriteLines(Tail(input_list))

\* write_list(input_list, filename): the text the file holds afterwards
write_list(input_list) == WriteLines(input_list)

\* the lines `for line in f` yields: each ends with its newline, but for a last line
\* without one
RECURSIVE FileLines(_)
FileLines(text) ==
  LET p == Find(text, S_nl)
  IN IF text = <<>> THEN <<>>
     ELSE IF p = 0 THEN <<text>>
     ELSE <<SubSeq(text, 1, p)>> \o FileLines(SubSeq(text, p + 1, Len(text)))

\* read_list(filename), from the text of the file
read_list(text) ==
  LET lines == FileLines(text) IN [q \in 1..Len(lines) |-> Strip(lines[q])]

(***************************************************************************)
(* The store engine: committed contents are a function from keys to       *)
(* values; map_size bounds the bytes the contents may take.               *)
(***************************************************************************)
EmptyStore == [k \in {} |-> <<>>]

\* the contents after key -> value is committed
StorePut(s, key, value) ==
  [k \in DOMAIN s \cup {key} |-> IF k = key THEN value ELSE s[k]]

\* the bytes the contents take
RECURSIVE SumSizes(_, _)
SumSizes(s, ks) ==
  IF ks = {} THEN 0
  ELSE LET k == CHOOSE x \in ks : TRUE
       IN Len(k) + Len(s[k]) + SumSizes(s, ks \ {k})

StoreSize(s) == SumSizes(s, DOMAIN s)

\* str(txn.get(key)): the value, or 'None' for a key the store does not hold
StrGet(s, key) == IF key \in DOMAIN s THEN s[key] ELSE S_None

\* the keys in the order txn.cursor() yields them
RECURSIVE CursorKeys(_)
CursorKeys(ks) ==
  IF ks = {} THEN <<>>
  ELSE LET m == CHOOSE x \in ks : \A y \in ks \ {x} : StrLess(x, y)
       IN <<m>> \o CursorKeys(ks \ {m})

(***************************************************************************)
(* Inputs.                                                                 *)
(***************************************************************************)
\* case identifiers: 'a', ' a' (two characters, the first a blank) and 'x_len'
CaseIds == { <<97>>, <<32, 97>>, <<120, 95, 108, 101, 110>> }

\* the payload paired with a key in a (key, payload) case: 'f' + key
PayloadOf(k) == <<102>> \o k

\* one element of `cases`: a bare identifier (fst) or a (key, payload) pair (fst, snd)
BareCase(id) == [pair |-> FALSE, fst |-> id, snd |-> <<>>]
PairCase(k, p) == [pair |-> TRUE, fst |-> k, snd |-> p]

\* the sequences of at most n distinct identifiers
IdSeqs(n) ==
  { q \in UNION { [1..m -> CaseIds] : m \in 0..n } :
      \A a, b \in 1..Len(q) : a # b => q[a] # q[b] }

\* the `cases` arguments: all bare identifiers, or all pairs; the keys are unique, but
\* for the arguments that give one key twice in two pairs
CasesArgs ==
  { [j \in 1..Len(q) |-> BareCase(q[j])] : q \in IdSeqs(MaxCases) } \cup
  { [j \in 1..Len(q) |-> PairCase(q[j], PayloadOf(q[j]))] : q \in IdSeqs(MaxCases) } \cup
  { << PairCase(k, PayloadOf(k)), PairCase(k, <<103>> \o k) >> : k \in CaseIds }

\* the arrays a loader may return
ArrayPool ==
  << [shape |-> <<2>>, dtype |-> S_uint8, data |-> <<1, 2>>],
     [shape |-> <<1, 2>>, dtype |-> S_uint16, data |-> <<258, 3>>],
     [shape |-> <<>>, dtype |-> S_uint8, data |-> <<7>>] >>

\* the n arrays the loader returns for the case at index at
LoaderArrays(at, n) == [j \in 1..n |-> ArrayPool[((at + j) % Len(ArrayPool)) + 1]]

\* the map sizes the store may have when build_db opens it
MapSizes == {4, 24, 4096}

\* the map size of the store in the runs that go on to read the dataset
ReadMapSize == 24

VARIABLES
  cases,      \* build_db's argument `cases`
  pc,         \* where build_db is
  exc,        \* the exception that left build_db, "none" while there is none
  keys,       \* build_db's keys
  payloads,   \* build_db's `cases` after lines 84-88: what goes to load_fn
  idx,        \* build_db's loop index
  ndarrays,   \* what load_fn returned for the current case
  i,          \* the index of the array being written
  site,       \* which call of write_kv_to_lmdb is running: "len", "data", "meta"
  db,         \* the writer's environment: [open, map_size]
  store,      \* the committed contents of the store
  txn,        \* write_kv_to_lmdb's transaction: [state, staged]
  wkey,       \* write_kv_to_lmdb's key
  wvalue,     \* write_kv_to_lmdb's value
  loads,      \* history: the calls of load_fn so far, [key, payload, arrays] each
  call,       \* history of the running write_kv_to_lmdb call: [store, map_size, retries],
              \* and of the store handle: [first, failures], its map size when it
              \* was opened and the MapFullErrors raised since
  keyfile,    \* the side key file: [exists, text]
  rd,         \* the readers (LmdbDb objects)
  opens,      \* history: how many LmdbDb objects have been constructed
  res,        \* the outcome of the last __getitem__
  dl          \* the outcome of the last __delitem__

vars == << cases, pc, exc, keys, payloads, idx, ndarrays, i, site, db, store, txn,
           wkey, wvalue, loads, call, keyfile, rd, opens, res, dl >>

bvars == << cases, pc, exc, keys, payloads, idx, ndarrays, i, site, db, store, txn,
            wkey, wvalue, loads, call, keyfile >>

rvars == << rd, opens, res, dl >>

(***************************************************************************)
(* Initial state: build_db is about to run on a store that holds nothing. *)
(***************************************************************************)
NoTxn == [state |-> "none", staged |-> <<>>]
NoCall ==
  [store |-> EmptyStore, map_size |-> 0, retries |-> 0, first |-> 0, failures |-> 0]
NoRes == [reader |-> 0, key |-> <<>>, outcome |-> "none", arrays |-> <<>>]
NoDel == [reader |-> 0, key |-> <<>>, outcome |-> "none"]
NewReader ==
  [state |-> "new", keys |-> <<>>, length |-> 0, src |-> "none", seq |-> 0,
   env |-> FALSE]
Readers == {1, 2}

InitWith(sizes) ==
  /\ cases \in CasesArgs
  /\ pc = "start"
  /\ exc = "none"
  /\ keys = <<>>
  /\ payloads = <<>>
  /\ idx = 0
  /\ ndarrays = <<>>
  /\ i = 0
  /\ site = "none"
  /\ db \in { [open |-> FALSE, map_size |-> m] : m \in sizes }
  /\ store = EmptyStore
  /\ txn = NoTxn
  /\ wkey = <<>>
  /\ wvalue = <<>>
  /\ loads = <<>>
  /\ call = [NoCall EXCEPT !.first = db.map_size]
  /\ keyfile = [exists |-> FALSE, text |-> <<>>]
  /\ rd = [r \in Readers |-> NewReader]
  /\ opens = 0
  /\ res = NoRes
  /\ dl = NoDel

Init == InitWith({ReadMapSize})

InitBuild == InitWith(MapSizes)

(***************************************************************************)
(* build_db, lines 74-88: open the store, split cases into keys and       *)
(* payloads.                                                               *)
(***************************************************************************)
\* len(x) of an element of cases
CaseLen(c) == IF c.pair THEN 2 ELSE Len(c.fst)

\* whether `x, y = c` unpacks
Unpacks(c) == CaseLen(c) = 2

\* the x of `x, y = c`
UnpackFst(c) == IF c.pair THEN c.fst ELSE <<c.fst[1]>>

\* the y of `x, y = c`
UnpackSnd(c) == IF c.pair THEN c.snd ELSE <<c.fst[2]>>

\* line 84: len(cases[0]) == 2
TakesPairs(cs) == CaseLen(cs[1]) = 2

\* lines 84-88: [err, keys, payloads]
SplitCases(cs) ==
  IF cs = <<>>
    THEN [err |-> "IndexError", keys |-> <<>>, payloads |-> <<>>]
  ELSE IF TakesPairs(cs)
    THEN IF \A j \in 1..Len(cs) : Unpacks(cs[j])
           THEN [err |-> "none",
                 keys |-> [j \in 1..Len(cs) |-> UnpackFst(cs[j])],
                 payloads |-> [j \in 1..Len(cs) |-> UnpackSnd(cs[j])]]
           ELSE [err |-> "ValueError", keys |-> <<>>, payloads |-> <<>>]
  ELSE [err |-> "none",
        keys |-> [j \in 1..Len(cs) |-> cs[j].fst],
        payloads |-> [j \in 1..Len(cs) |-> cs[j].fst]]

build_db_open ==
  /\ pc = "start"
  /\ db' = [db EXCEPT !.open = TRUE]
  /\ LET sp == SplitCases(cases)
     IN IF sp.err = "none"
          THEN /\ keys' = sp.keys
               /\ payloads' = sp.payloads
               /\ pc' = "loop"
               /\ exc' = exc
          ELSE /\ pc' = "raised"
               /\ exc' = sp.err
               /\ UNCHANGED <<keys, payloads>>
  /\ UNCHANGED <<cases, idx, ndarrays, i, site, store, txn, wkey, wvalue, loads, call,
                 keyfile, rvars>>

(***************************************************************************)
(* write_kv_to_lmdb, lines 32-46: one transaction per attempt; a          *)
(* MapFullError aborts it, doubles the map size and tries again.          *)
(***************************************************************************)
WriterPcs == {"w_begin", "w_put", "w_commit", "w_abort", "w_grow"}

\* the bytes the store needs to hold key -> value besides its contents
Need(s, key, value) == StoreSize(StorePut(s, key, value))

\* txn.put(key, value): the error it raises, "none" when the write is staged
PutError(s, key, value, map_size) ==
  IF Need(s, key, value) > map_size THEN "MapFullError" ELSE "none"

\* what a put that ran out of room has written into its transaction
PartialWrite(s, key, value, map_size) ==
  LET room == map_size - StoreSize(s) - Len(key)
      n == IF room < 0 THEN 0 ELSE IF room > Len(value) THEN Len(value) ELSE room
  IN <<key, SubSeq(value, 1, n)>>

\* the contents with a transaction's writes applied
Applied(s, staged) == IF staged = <<>> THEN s ELSE StorePut(s, staged[1], staged[2])

\* the mutant of TxnAbort that keeps what the transaction wrote
TxnAbortKeeps(s, staged) == Applied(s, staged)

\* line 40, txn.abort(): the committed contents afterwards
TxnAbort(s, staged) == s

\* line 37, txn.commit(): the committed contents afterwards
TxnCommit(s, staged) == Applied(s, staged)

\* the mutant of Caught that catches nothing
CaughtNever(err) == FALSE

\* line 39: except lmdb.MapFullError
Caught(err) == err = "MapFullError"

\* the mutant of NewLimit that triples the map size
NewLimitTriple(curr_limit) == curr_limit * 3

\* the mutant of NewLimit that grows the map by one byte
NewLimitPlusOne(curr_limit) == curr_limit + 1

\* line 43: new_limit = curr_limit * 2
NewLimit(curr_limit) == curr_limit * 2

\* the call write_kv_to_lmdb(db, key, value) from call site s
StartPut(key, value, s) ==
  /\ wkey' = key
  /\ wvalue' = value
  /\ site' = s
  /\ call' = [call EXCEPT !.store = store, !.map_size = db.map_size, !.retries = 0]
  /\ pc' = "w_begin"

\* line 34: txn = db.begin(write=True); it waits while a write transaction is open
txn_begin ==
  /\ pc = "w_begin"
  /\ txn.state # "active"
  /\ txn' = [state |-> "active", staged |-> <<>>]
  /\ pc' = "w_put"
  /\ UNCHANGED <<cases, exc, keys, payloads, idx, ndarrays, i, site, db, store, wkey,
                 wvalue, loads, call, keyfile, rvars>>

\* line 36: txn.put(key, value)
txn_put ==
  /\ pc = "w_put"
  /\ LET err == PutError(store, wkey, wvalue, db.map_size)
     IN IF err = "none"
          THEN /\ txn' = [txn EXCEPT !.staged = <<wkey, wvalue>>]
               /\ pc' = "w_commit"
               /\ exc' = exc
        ELSE IF Caught(err)
          THEN /\ txn' = [txn EXCEPT !.staged =
                            PartialWrite(store, wkey, wvalue, db.map_size)]
               /\ pc' = "w_abort"
               /\ exc' = exc
        ELSE /\ txn' = [txn EXCEPT !.staged =
                          PartialWrite(store, wkey, wvalue, db.map_size)]
             /\ pc' = "raised"
             /\ exc' = err
  /\ call' = IF PutError(store, wkey, wvalue, db.map_size) = "MapFullError"
               THEN [call EXCEPT !.failures = @ + 1]
               ELSE call
  /\ UNCHANGED <<cases, keys, payloads, idx, ndarrays, i, site, db, store, wkey,
                 wvalue, loads, keyfile, rvars>>

\* lines 37-38: txn.commit(); success = True
txn_commit ==
  /\ pc = "w_commit"
  /\ store' = TxnCommit(store, txn.staged)
  /\ txn' = [state |-> "committed", staged |-> <<>>]
  /\ pc' = "w_ret"
  /\ UNCHANGED <<cases, exc, keys, payloads, idx, ndarrays, i, site, db, wkey, wvalue,
                 loads, call, keyfile, rvars>>

\* line 40: txn.abort()
txn_abort ==
  /\ pc = "w_abort"
  /\ store' = TxnAbort(store, txn.staged)
  /\ txn' = [state |-> "aborted", staged |-> <<>>]
  /\ pc' = "w_grow"
  /\ UNCHANGED <<cases, exc, keys, payloads, idx, ndarrays, i, site, db, wkey, wvalue,
                 loads, call, keyfile, rvars>>

\* lines 42-46: db.set_mapsize(db.info()['map_size'] * 2)
set_mapsize ==
  /\ pc = "w_grow"
  /\ db' = [db EXCEPT !.map_size = NewLimit(db.map_size)]
  /\ call' = [call EXCEPT !.retries = @ + 1]
  /\ pc' = "w_begin"
  /\ UNCHANGED <<cases, exc, keys, payloads, idx, ndarrays, i, site, store, txn, wkey,
                 wvalue, loads, keyfile, rvars>>

(***************************************************************************)
(* build_db, lines 89-103, and write_data_to_lmdb, lines 53-56.           *)
(***************************************************************************)
\* line 92: '{}_len'.format(keys[idx])
LenKey(k) == k \o S_len

\* the mutant of ItemKey that leaves the index out
ItemKeyNoIndex(k, n) == k \o S_us \o IntStr(0)

\* line 96: '{}_{}'.format(keys[idx], i)
ItemKey(k, n) == k \o S_us \o IntStr(n)

\* the mutant of MetaKey that names the metadata after the next array
MetaKeyAhead(key) == DropLast(key, 1) \o <<key[Len(key)] + 1>> \o S_metadata

\* line 54: key + '_metadata'
MetaKey(key) == key \o S_metadata

\* line 95 and line 55: json.dumps(dict(shape=data.shape, dtype=str(data.dtype)))
MetaValue(data) == DumpsMeta(data.shape, data.dtype)

\* the mutant of CaseAt that gives the loader the first case every time
CaseAtFirst(n) == 1

\* line 90: cases[idx], Python's index idx in a sequence that counts from 1
CaseAt(n) == n + 1

\* lines 90-93: load the next case and write its length
build_db_load ==
  /\ pc = "loop"
  /\ idx < Len(payloads)
  /\ \E n \in 0..MaxArrays :
       /\ ndarrays' = LoaderArrays(idx, n)
       /\ loads' = Append(loads, [key |-> keys[idx + 1],
                                  payload |-> payloads[CaseAt(idx)],
                                  arrays |-> LoaderArrays(idx, n)])
       /\ StartPut(LenKey(keys[idx + 1]), IntStr(n), "len")
  /\ i' = 0
  /\ UNCHANGED <<cases, exc, keys, payloads, idx, db, store, txn, keyfile, rvars>>

\* a write_kv_to_lmdb call has returned: the next statement of lines 94-97 and 53-56
build_db_next ==
  /\ pc = "w_ret"
  /\ \/ /\ site = "len" \/ (site = "meta" /\ i + 1 < Len(ndarrays))
        /\ LET n == IF site = "len" THEN 0 ELSE i + 1
           IN /\ n < Len(ndarrays)
              /\ i' = n
              /\ StartPut(ItemKey(keys[idx + 1], n), ToBytes(ndarrays[n + 1]), "data")
        /\ idx' = idx
     \/ /\ site = "data"
        /\ StartPut(MetaKey(wkey), MetaValue(ndarrays[i + 1]), "meta")
        /\ UNCHANGED <<idx, i>>
     \/ /\ \/ site = "len" /\ Len(ndarrays) = 0
           \/ site = "meta" /\ i + 1 >= Len(ndarrays)
        /\ idx' = idx + 1
        /\ pc' = "loop"
        /\ UNCHANGED <<i, site, wkey, wvalue, call>>
  /\ UNCHANGED <<cases, exc, keys, payloads, ndarrays, db, store, txn, loads, keyfile,
                 rvars>>

\* line 99: db.close()
build_db_close ==
  /\ pc = "loop"
  /\ idx = Len(payloads)
  /\ db' = [db EXCEPT !.open = FALSE]
  /\ pc' = "write_keys"
  /\ UNCHANGED <<cases, exc, keys, payloads, idx, ndarrays, i, site, store, txn, wkey,
                 wvalue, loads, call, keyfile, rvars>>

\* lines 102-103: write_list(keys, lmdb_keys_path)
build_db_write_list ==
  /\ pc = "write_keys"
  /\ keyfile' = [exists |-> TRUE, text |-> write_list(keys)]
  /\ pc' = "done"
  /\ UNCHANGED <<cases, exc, keys, payloads, idx, ndarrays, i, site, db, store, txn,
                 wkey, wvalue, loads, call, rvars>>

Build ==
  \/ build_db_open
  \/ build_db_load
  \/ txn_begin
  \/ txn_put
  \/ txn_commit
  \/ txn_abort
  \/ set_mapsize
  \/ build_db_next
  \/ build_db_close
  \/ build_db_write_list

\* the mutant of LoaderFailurePc that goes on to persist the key list
LoaderFailureGoesOn == "write_keys"

\* line 90 has no handler around load_fn: where build_db is after load_fn raised
LoaderFailurePc == "raised"

\* line 90: load_fn(cases[idx]) raises; the exception leaves build_db
load_fn_raises ==
  /\ pc = "loop"
  /\ idx < Len(payloads)
  /\ pc' = LoaderFailurePc
  /\ exc' = "LoaderFailure"
  /\ UNCHANGED <<cases, keys, payloads, idx, ndarrays, i, site, db, store, txn, wkey,
                 wvalue, loads, call, keyfile, rvars>>

\* line 36: txn.put(key, value) raises an error of the engine or the host that is not
\* MapFullError; line 39 does not catch it and no statement ends the transaction
txn_put_raises ==
  /\ pc = "w_put"
  /\ pc' = "raised"
  /\ exc' = "Error"
  /\ UNCHANGED <<cases, keys, payloads, idx, ndarrays, i, site, db, store, txn, wkey,
                 wvalue, loads, call, keyfile, rvars>>

\* build_db with a loader and a store engine that can fail
BuildFaulty ==
  \/ Build
  \/ load_fn_raises
  \/ txn_put_raises

(***************************************************************************)
(* LmdbDb.__init__, lines 123-139.                                         *)
(***************************************************************************)
\* line 131: if '_len' in key
KeyFilter(key) == Contains(key, S_len)

\* line 131: [key[:-len('_len')] for key, _ in txn.cursor() if '_len' in key]
DeriveKeys(s) ==
  LET sel == SelectSeq(CursorKeys(DOMAIN s), KeyFilter)
  IN [q \in 1..Len(sel) |-> DropLast(sel[q], Len(S_len))]

\* line 138: each item has data and metadata plus one length key
ItemLen(n) == 2 * n + 1

\* lines 135-139: [err, length]; Python 2's / on two ints is the floor division
OpenLength(s, ks) ==
  IF ks = <<>> THEN [err |-> "IndexError", length |-> 0]
  ELSE LET n == ParseInt(StrGet(s, ks[1] \o S_len))
       IN IF n < 0 THEN [err |-> "ValueError", length |-> 0]
          ELSE [err |-> "none", length |-> Cardinality(DOMAIN s) \div ItemLen(n)]

\* LmdbDb(path, db_name): builds reader r, once no writer is active; the readers are
\* numbered in the order they are built.  A reader whose constructor raised has the
\* exception as its state, and keys holds what self._keys was set to before.
Open(r) ==
  /\ pc \in {"done", "raised"}
  /\ rd[r].state = "new"
  /\ \A q \in Readers : q < r => rd[q].state # "new"
  /\ LET ks == IF keyfile.exists THEN read_list(keyfile.text) ELSE DeriveKeys(store)
         ln == OpenLength(store, ks)
     IN /\ keyfile' = IF keyfile.exists THEN keyfile
                      ELSE [exists |-> TRUE, text |-> write_list(ks)]
        /\ rd' = [rd EXCEPT ![r] =
                    [state |-> IF ln.err = "none" THEN "open" ELSE ln.err,
                     keys |-> ks,
                     length |-> ln.length,
                     src |-> IF keyfile.exists THEN "file" ELSE "scan",
                     seq |-> opens + 1,
                     env |-> TRUE]]
  /\ opens' = opens + 1
  /\ UNCHANGED <<cases, pc, exc, keys, payloads, idx, ndarrays, i, site, db, store, txn,
                 wkey, wvalue, loads, call, res, dl>>

\* the side key file is removed from the dataset's folder
remove_keyfile ==
  /\ pc \in {"done", "raised"}
  /\ keyfile.exists
  /\ keyfile' = [exists |-> FALSE, text |-> <<>>]
  /\ UNCHANGED <<cases, pc, exc, keys, payloads, idx, ndarrays, i, site, db, store, txn,
                 wkey, wvalue, loads, call, rvars>>

(***************************************************************************)
(* LmdbDb.__getitem__ and LmdbDb._getsubitem, lines 148-173.              *)
(***************************************************************************)
InSeq(x, q) == \E j \in 1..Len(q) : q[j] = x

\* line 158: key + '_len'
GetLenKey(key) == key \o S_len

\* line 161: key + '_{}'.format(i)
GetItemKey(key, n) == key \o S_us \o IntStr(n)

\* line 166: key + '_metadata'
GetMetaKey(key) == key \o S_metadata

\* the mutant of has_key that finds every key
has_key_always(ks, key) == TRUE

\* lines 148-149: key in self._keys
has_key(ks, key) == InSeq(key, ks)

\* lines 164-173, _getsubitem(key, txn): [outcome, array]
getsubitem(s, key) ==
  LET metadata == LoadsMeta(StrGet(s, GetMetaKey(key)))
      made == NdArray(metadata.shape, metadata.dtype, s[key])
      none == [shape |-> <<>>, dtype |-> <<>>, data |-> <<>>]
  IN IF ~metadata.ok THEN [outcome |-> "ValueError", array |-> none]
     ELSE IF key \notin DOMAIN s THEN [outcome |-> "Uninitialized", array |-> none]
     ELSE IF ~made.ok THEN [outcome |-> "TypeError", array |-> none]
     ELSE [outcome |-> "ok", array |-> made.array]

\* lines 160-161: the first n sub-items of key, [outcome, arrays]
RECURSIVE SubItems(_, _, _)
SubItems(s, key, n) ==
  IF n = 0 THEN [outcome |-> "ok", arrays |-> <<>>]
  ELSE LET before == SubItems(s, key, n - 1)
           item == getsubitem(s, GetItemKey(key, n - 1))
       IN IF before.outcome # "ok" THEN before
          ELSE IF item.outcome # "ok" THEN [outcome |-> item.outcome, arrays |-> <<>>]
          ELSE [outcome |-> "ok", arrays |-> Append(before.arrays, item.array)]

\* lines 154-162, __getitem__(key): [outcome, arrays]
getitem(s, ks, key) ==
  LET itemlen == ParseInt(StrGet(s, GetLenKey(key)))
  IN IF ~has_key(ks, key) THEN [outcome |-> "KeyError", arrays |-> <<>>]
     ELSE IF itemlen < 0 THEN [outcome |-> "ValueError", arrays |-> <<>>]
     ELSE SubItems(s, key, itemlen)

SeqRange(q) == { q[j] : j \in 1..Len(q) }

\* the keys looked up: the identifiers, the keys build_db made, the keys of the reader
Probes(r) == CaseIds \cup SeqRange(keys) \cup SeqRange(rd[r].keys)

\* reader r's __getitem__(key); a run of the model follows one lookup
GetItem(r) ==
  /\ rd[r].state = "open"
  /\ res = NoRes
  /\ \E key \in Probes(r) :
       LET got == getitem(store, rd[r].keys, key)
       IN res' = [reader |-> r, key |-> key, outcome |-> got.outcome,
                  arrays |-> got.arrays]
  /\ UNCHANGED <<bvars, rd, opens, dl>>

\* lines 141-143, __delitem__(key): [outcome, keys]; line 142 subscripts the method
\* list.index (self._keys.index[key]), which raises TypeError whatever the key is,
\* before anything is taken out of self._keys
delitem(ks, key) == [outcome |-> "TypeError", keys |-> ks]

\* reader r's __delitem__(key), before any lookup
DelItem(r) ==
  /\ rd[r].state = "open"
  /\ res = NoRes
  /\ dl = NoDel
  /\ \E key \in Probes(r) :
       LET d == delitem(rd[r].keys, key)
       IN /\ dl' = [reader |-> r, key |-> key, outcome |-> d.outcome]
          /\ rd' = [rd EXCEPT ![r].keys = d.keys]
  /\ UNCHANGED <<bvars, opens, res>>

\* the number of arguments __exit__ is called with when a with-block is left: self,
\* the exception type, the exception and the traceback
WithExitArgs == 4

\* line 184: def __exit__(self) takes one argument
ExitParams == 1

\* lines 184-186, __exit__ called with nargs arguments: [outcome, env]; a call with
\* the wrong number of arguments raises TypeError before line 185 closes the env
exit_call(nargs) ==
  IF nargs = ExitParams THEN [outcome |-> "none", env |-> FALSE]
  ELSE [outcome |-> "TypeError", env |-> TRUE]

\* the with-block `with LmdbDb(path, db_name) as db:` of reader r is left
WithExit(r) ==
  /\ rd[r].state = "open"
  /\ LET x == exit_call(WithExitArgs)
     IN rd' = [rd EXCEPT ![r].state = IF x.outcome = "none" THEN "exited" ELSE x.outcome,
                         ![r].env = x.env]
  /\ UNCHANGED <<bvars, opens, res, dl>>

Read == \E r \in Readers : Open(r) \/ GetItem(r)

(***************************************************************************)
(* LmdbDb.__init__ step by step, for readers that are built at the same   *)
(* time: a reader's state is the statement it runs next.                   *)
(***************************************************************************)
OpenPcs == {"read", "scan", "create", "write"}

\* lines 135-139 and the end of __init__ of reader r, with ks as self._keys
FinishOpen(r, ks, src) ==
  LET ln == OpenLength(store, ks)
  IN /\ rd' = [rd EXCEPT ![r] =
                 [state |-> IF ln.err = "none" THEN "open" ELSE ln.err,
                  keys |-> ks,
                  length |-> ln.length,
                  src |-> src,
                  seq |-> opens + 1,
                  env |-> TRUE]]
     /\ opens' = opens + 1

\* lines 123-126: lmdb.open(...) and os.path.isfile(lmdb_keys_path)
open_isfile(r) ==
  /\ pc = "done"
  /\ rd[r].state = "new"
  /\ rd' = [rd EXCEPT ![r].state = IF keyfile.exists THEN "read" ELSE "scan",
                      ![r].env = TRUE]
  /\ UNCHANGED <<bvars, opens, res, dl>>

\* line 127: self._keys = read_list(lmdb_keys_path), then lines 135-139
open_read_list(r) ==
  /\ rd[r].state = "read"
  /\ FinishOpen(r, read_list(keyfile.text), "file")
  /\ UNCHANGED <<bvars, res, dl>>

\* lines 130-131: the keys derived from the cursor
open_scan(r) ==
  /\ rd[r].state = "scan"
  /\ rd' = [rd EXCEPT ![r].state = "create", ![r].keys = DeriveKeys(store)]
  /\ UNCHANGED <<bvars, opens, res, dl>>

\* line 132, utils line 34: open(filename, 'w') creates the file or empties it
open_create(r) ==
  /\ rd[r].state = "create"
  /\ keyfile' = [exists |-> TRUE, text |-> <<>>]
  /\ rd' = [rd EXCEPT ![r].state = "write"]
  /\ UNCHANGED <<cases, pc, exc, keys, payloads, idx, ndarrays, i, site, db, store, txn,
                 wkey, wvalue, loads, call, opens, res, dl>>

\* utils lines 35-36: the lines are written and the file is closed; then lines 133-139
open_write(r) ==
  /\ rd[r].state = "write"
  /\ keyfile' = [exists |-> TRUE, text |-> write_list(rd[r].keys)]
  /\ FinishOpen(r, rd[r].keys, "scan")
  /\ UNCHANGED <<cases, pc, exc, keys, payloads, idx, ndarrays, i, site, db, store, txn,
                 wkey, wvalue, loads, call, res, dl>>

\* the side key file is removed before any reader is built
remove_before_open ==
  /\ \A r \in Readers : rd[r].state = "new"
  /\ remove_keyfile

OpenSteps ==
  \E r \in Readers :
    \/ open_isfile(r)
    \/ open_read_list(r)
    \/ open_scan(r)
    \/ open_create(r)
    \/ open_write(r)

Next == Build \/ Read \/ remove_keyfile

\* build_db followed by readers of the dataset
Spec == Init /\ [][Next]_vars

\* build_db followed by one reader that removes a key and looks one up
NextDel == Build \/ Open(1) \/ DelItem(1) \/ GetItem(1)

SpecDel == Init /\ [][NextDel]_vars

\* build_db with failures, followed by a reader used in a with-block
NextRelease == BuildFaulty \/ Open(1) \/ GetItem(1) \/ WithExit(1)

SpecRelease == Init /\ [][NextRelease]_vars

\* build_db followed by two readers that are built at the same time
NextConc == Build \/ remove_before_open \/ OpenSteps

SpecConc == Init /\ [][NextConc]_vars

\* build_db alone, on stores of every map size
SpecBuild == InitBuild /\ [][Build]_vars

\* build_db alone, with a loader that can fail
SpecFault == InitBuild /\ [][BuildFaulty]_vars

\* build_db on at most one case
InitFair == InitWith(MapSizes) /\ Len(cases) <= 1

\* build_db under the scheduling of a single thread: a step that can be taken is taken
SpecBuildFair == InitFair /\ [][Build]_vars /\ WF_vars(Build)

(***************************************************************************)
(* Properties.                                                             *)
(***************************************************************************)
\* build_db's keys are pairwise different
KeysUnique == \A a, b \in 1..Len(keys) : a # b => keys[a] # keys[b]

\* C1: in a dataset build_db built without failure from cases with unique keys, a
\* lookup of a case key returns the arrays the loader returned for it: as many, in the
\* same order, each with the same shape, dtype and content.
C1_RoundTrip ==
  (pc = "done" /\ KeysUnique /\ res.outcome # "none") =>
    \A j \in 1..Len(loads) :
      loads[j].key = res.key =>
        /\ res.outcome = "ok"
        /\ Len(res.arrays) = Len(loads[j].arrays)
        /\ \A q \in 1..Len(res.arrays) :
             /\ res.arrays[q].shape = loads[j].arrays[q].shape
             /\ res.arrays[q].dtype = loads[j].arrays[q].dtype
             /\ res.arrays[q].data = loads[j].arrays[q].data

\* the store keys of the KeyRecord of case key K with n arrays
RecordKeys(K, n) ==
  { K \o S_len } \cup
  { K \o S_us \o <<48 + q>> : q \in 0..(n - 1) } \cup
  { K \o S_us \o <<48 + q>> \o S_metadata : q \in 0..(n - 1) }

\* C2: after build_db has returned normally on an empty store with unique case keys,
\* the store holds, for every case key K with n loaded arrays, K_len = the text of n,
\* K_i and K_i_metadata for every i < n and none for i >= n, and no other key.
C2_KeyRecords ==
  (pc = "done" /\ KeysUnique) =>
    /\ Len(loads) = Len(keys)
    /\ DOMAIN store =
         UNION { RecordKeys(keys[j], Len(loads[j].arrays)) : j \in 1..Len(keys) }
    /\ \A j \in 1..Len(keys) :
         LET K == keys[j]
             n == Len(loads[j].arrays)
         IN /\ loads[j].key = K
            /\ store[K \o S_len] = <<48 + n>>
            /\ \A q \in n..(MaxArrays + 1) :
                 /\ K \o S_us \o <<48 + q>> \notin DOMAIN store
                 /\ K \o S_us \o <<48 + q>> \o S_metadata \notin DOMAIN store

\* C2's case: two cases, the first with two arrays, the second with fewer
C2_Witness ==
  /\ pc = "done"
  /\ KeysUnique
  /\ Len(keys) = 2
  /\ Len(loads[1].arrays) = 2
  /\ Len(loads[2].arrays) < 2

\* C3: while a write_kv_to_lmdb call runs, whatever attempts failed, the committed
\* contents are those before the call, and a failed attempt's transaction is aborted
\* with nothing kept; when the call has returned the contents are those before the
\* call with exactly key -> value added or replaced.
C3_PutAtomic ==
  /\ pc \in WriterPcs => store = call.store
  /\ pc = "w_grow" => txn.state = "aborted" /\ txn.staged = <<>>
  /\ pc = "w_ret" =>
       /\ DOMAIN store = DOMAIN call.store \cup {wkey}
       /\ store[wkey] = wvalue
       /\ \A k \in DOMAIN call.store \ {wkey} : store[k] = call.store[k]

\* C3's case: a call that returned after two or more failed attempts, on a store that
\* held entries
C3_Witness ==
  /\ pc = "w_ret"
  /\ call.retries >= 2
  /\ call.store # EmptyStore

\* C3's case of a replaced key: the call returned and the key was there before
C3_WitnessReplaced == pc = "w_ret" /\ wkey \in DOMAIN call.store

\* the least k with capacity * 2^k >= size
RECURSIVE Doublings(_, _)
Doublings(capacity, size) ==
  IF capacity >= size THEN 0 ELSE 1 + Doublings(2 * capacity, size)

\* C4 as claimed: a put whose value is larger than the capacity at its start returns
\* after at most ceil(log2(value_size / initial_capacity)) doublings.
C4_RetriesByValueSize ==
  (pc = "w_ret" /\ call.map_size < Len(wvalue)) =>
    call.retries <= Doublings(call.map_size, Len(wvalue))

\* C4 as amended: a put whose value is larger than the capacity at its start returns
\* after at most ceil(log2(needed / initial_capacity)) doublings, where needed is the
\* size of the store's contents with the new entry: the entries it held, the key and
\* the value.
C4_RetriesByStoreSize ==
  (pc = "w_ret" /\ call.map_size < Len(wvalue)) =>
    call.retries <= Doublings(call.map_size, StoreSize(store))

\* C4's case: a put of a value larger than the capacity that took more doublings than
\* the value size alone accounts for
C4_Witness ==
  /\ pc = "w_ret"
  /\ call.map_size < Len(wvalue)
  /\ call.retries > Doublings(call.map_size, Len(wvalue))

\* C5: every call of write_kv_to_lmdb eventually commits its write and returns, and
\* no MapFullError leaves write_kv_to_lmdb or build_db.
C5_PutTerminates ==
  /\ (pc \in WriterPcs) ~>
       (pc = "w_ret" /\ txn.state = "committed" /\ wkey \in DOMAIN store
          /\ store[wkey] = wvalue)
  /\ [](exc # "MapFullError" /\ (pc = "raised" => exc \in {"IndexError", "ValueError"}))

\* C5's case: a call that returned after its transaction ran out of room twice
C5_Witness == pc = "w_ret" /\ call.retries >= 2 /\ txn.state = "committed"

\* every case of the build has the same number of arrays
UniformCounts ==
  \A a, b \in 1..Len(loads) : Len(loads[a].arrays) = Len(loads[b].arrays)

\* C6: a reader opened on a dataset built from N cases with unique keys, each with
\* exactly m arrays, has length N.
C6_Length ==
  \A r \in Readers :
    (pc = "done" /\ KeysUnique /\ Len(keys) >= 1 /\ UniformCounts
       /\ rd[r].state # "new") =>
      rd[r].state = "open" /\ rd[r].length = Len(keys)

\* C7: a lookup of a key that is not in the reader's CaseKeyList fails with KeyError
\* and leaves the store, the side key file, the CaseKeyList and the length unchanged.
C7_MissingKey ==
  [][ \A r \in Readers :
        (GetItem(r) /\ ~InSeq(res'.key, rd[r].keys)) =>
          /\ res'.outcome = "KeyError"
          /\ res'.arrays = <<>>
          /\ UNCHANGED <<store, keyfile, rd, db>> ]_vars

\* C7's case: a lookup that failed with KeyError in a dataset that holds cases
C7_Witness == res.outcome = "KeyError" /\ store # EmptyStore

\* C8: when cases holds bare identifiers each is the case key and is what the loader
\* gets, also an identifier of two characters; when it holds (key, payload) pairs the
\* first of each is the key and the second is what the loader gets.
C8_CasesSplit ==
  (pc # "start" /\ cases # <<>>) =>
    /\ pc # "raised"
    /\ Len(keys) = Len(cases)
    /\ Len(payloads) = Len(cases)
    /\ \A j \in 1..Len(cases) :
         /\ keys[j] = cases[j].fst
         /\ payloads[j] = IF cases[j].pair THEN cases[j].snd ELSE cases[j].fst

\* C9: the key list a reader derives when the side key file is missing holds exactly
\* the keys K with a K_len entry in the store, each once.
C9_DerivedKeys ==
  \A r \in Readers :
    rd[r].src = "scan" =>
      /\ SeqRange(rd[r].keys) =
           { DropLast(k, Len(S_len)) : k \in { x \in DOMAIN store : EndsWith(x, S_len) } }
      /\ \A a, b \in 1..Len(rd[r].keys) : a # b => rd[r].keys[a] # rd[r].keys[b]

\* C10: a reader opened after a reader that derived the key list and created the side
\* file, and that loads that file, has the same CaseKeyList as the first.
C10_IdempotentOpen ==
  (rd[1].src = "scan" /\ rd[2].src = "file") => rd[2].keys = rd[1].keys

\* C11: build_db writes the side key file only after all cases have been written, the
\* file lists all case keys in input order, a reader opened afterwards has exactly that
\* sequence as keys(), and a key is listed exactly when it has a K_len entry in the
\* store.  (The side file is build_db's own while no reader has derived one.)
C11_PersistedKeys ==
  /\ (keyfile.exists /\ opens = 0) =>
       /\ pc = "done"
       /\ Len(loads) = Len(keys)
       /\ read_list(keyfile.text) = keys
  /\ \A r \in Readers :
       (pc = "done" /\ rd[r].src = "file" /\ \A q \in Readers : rd[q].src # "scan") =>
         /\ rd[r].keys = keys
         /\ \A j \in 1..Len(rd[r].keys) : rd[r].keys[j] \o S_len \in DOMAIN store
         /\ \A k \in DOMAIN store :
              EndsWith(k, S_len) => InSeq(DropLast(k, Len(S_len)), rd[r].keys)

\* C12: when the loader fails on a case, the failure leaves build_db at once (build_db
\* takes no further step), no key of that or a later case is in the store, the store
\* holds the complete KeyRecords of exactly the cases before it, and the side key file
\* has not been written.  Case keys are unique.
C12_LoaderFailure ==
  (exc = "LoaderFailure" /\ KeysUnique) =>
    /\ pc = "raised"
    /\ ~ENABLED BuildFaulty
    /\ ~keyfile.exists
    /\ Len(loads) = idx
    /\ idx < Len(keys)
    /\ DOMAIN store =
         UNION { RecordKeys(keys[j], Len(loads[j].arrays)) : j \in 1..idx }
    /\ \A j \in 1..idx :
         /\ loads[j].key = keys[j]
         /\ store[keys[j] \o S_len] = <<48 + Len(loads[j].arrays)>>
         /\ \A q \in 1..Len(loads[j].arrays) :
              /\ store[keys[j] \o S_us \o <<47 + q>>] = ToBytes(loads[j].arrays[q])
              /\ store[keys[j] \o S_us \o <<47 + q>> \o S_metadata] =
                   DumpsMeta(loads[j].arrays[q].shape, loads[j].arrays[q].dtype)
    /\ \A j \in (idx + 1)..Len(keys) :
         RecordKeys(keys[j], MaxArrays + 1) \cap DOMAIN store = {}

\* C12's case: the loader failed on the second case after a first case of two arrays
C12_Witness ==
  /\ exc = "LoaderFailure"
  /\ KeysUnique
  /\ idx = 1
  /\ Len(loads[1].arrays) = 2
  /\ store # EmptyStore

\* C13: build_db calls the loader once per case, in the order of cases; the call for
\* a case comes after all keys of the cases before it have been written and before
\* any key of the case itself is written: every write is of a key of the case loaded
\* last.
C13_LoaderOrder ==
  [][ /\ Len(loads') <= Len(payloads')
      /\ \A j \in 1..Len(loads') : loads'[j].payload = payloads'[j]
      /\ pc' = "done" => Len(loads') = Len(payloads')
      /\ loads' # loads =>
           /\ Len(loads) = idx
           /\ loads' = Append(loads, loads'[idx + 1])
           /\ store' = store
           /\ \A j \in 1..idx :
                RecordKeys(keys[j], Len(loads[j].arrays)) \subseteq DOMAIN store
           /\ KeysUnique =>
                RecordKeys(keys[idx + 1], MaxArrays + 1) \cap DOMAIN store = {}
      /\ store' # store =>
           /\ loads' = loads
           /\ Len(loads) = idx + 1
           /\ DOMAIN store' \ DOMAIN store \subseteq
                RecordKeys(keys[idx + 1], Len(loads[idx + 1].arrays))
           /\ \A k \in DOMAIN store :
                store'[k] # store[k] =>
                  k \in RecordKeys(keys[idx + 1], Len(loads[idx + 1].arrays)) ]_vars

\* C13's case: the loader has just been called for the second case, after the first
\* case's two arrays were written
C13_Witness ==
  /\ Len(loads) = 2
  /\ idx = 1
  /\ pc = "w_begin"
  /\ site = "len"
  /\ call.retries = 0
  /\ Len(loads[1].arrays) = 2

\* C14: a reader opened on a dataset whose cases have differing array counts fails
\* with a fatal error: it never opens, with a length that is not the number of cases
\* or with any length.  Case keys are unique.
C14_NonUniformFlagged ==
  \A r \in Readers :
    (pc = "done" /\ KeysUnique /\ ~UniformCounts /\ rd[r].state # "new") =>
      rd[r].state # "open"

\* the sequence q without its element at position n
RemoveAt(q, n) == SubSeq(q, 1, n - 1) \o SubSeq(q, n + 1, Len(q))

\* C15: __delitem__(key) for a key of the reader's CaseKeyList takes the key out of
\* the list and nothing else: it raises nothing, afterwards has_key(key) is false and
\* a lookup of the key fails with KeyError, and the store and the side key file are
\* unchanged.
C15_DelItem ==
  [][ /\ \A r \in Readers :
           (DelItem(r) /\ InSeq(dl'.key, rd[r].keys)) =>
             /\ dl'.outcome = "none"
             /\ ~InSeq(dl'.key, rd'[r].keys)
             /\ \E n \in 1..Len(rd[r].keys) :
                  rd[r].keys[n] = dl'.key /\ rd'[r].keys = RemoveAt(rd[r].keys, n)
             /\ UNCHANGED <<store, keyfile, db>>
      /\ \A r \in Readers :
           (GetItem(r) /\ dl.reader = r /\ dl.key = res'.key) =>
             res'.outcome = "KeyError" ]_vars

\* C16: write_kv_to_lmdb leaves no transaction open when it is left, by a return or by
\* an exception; build_db has closed its store handle when it is left, by a return, a
\* loader failure or an error of a write; a reader whose with-block was left has
\* closed its store handle.
C16_Released ==
  /\ pc = "w_ret" => txn.state = "committed"
  /\ pc \in {"done", "raised"} => (txn.state # "active" /\ ~db.open)
  /\ \A r \in Readers :
       rd[r].state \in {"exited", "TypeError"} => ~rd[r].env

\* the CaseKeyList of a reader built alone on the dataset the readers were built on:
\* a reader derives the list only when the side file was missing at the start
LoneKeys ==
  IF \E r \in Readers : rd[r].src = "scan" \/ rd[r].state \in {"scan", "create", "write"}
    THEN DeriveKeys(store)
    ELSE read_list(keyfile.text)

\* C17: two readers built at the same time on a completed dataset, whatever the order
\* of their steps and whether the side key file is there or not, each end as a reader
\* built alone does: with the same CaseKeyList and the same length, and without an
\* error where the lone reader has none.
C17_ConcurrentOpen ==
  \A r \in Readers :
    (rd[r].state \notin {"new"} \cup OpenPcs) =>
      LET ln == OpenLength(store, LoneKeys)
      IN /\ rd[r].keys = LoneKeys
         /\ rd[r].length = ln.length
         /\ rd[r].state = IF ln.err = "none" THEN "open" ELSE ln.err

RECURSIVE Pow2(_)
Pow2(n) == IF n <= 0 THEN 1 ELSE 2 * Pow2(n - 1)

\* C18: over the write_kv_to_lmdb calls on one store handle the map size never
\* decreases, changes only in the doubling step that follows an aborted attempt, and
\* is the map size the handle was opened with times 2^k, k being the number of
\* MapFullErrors raised so far (less the one whose doubling step is still to come,
\* between the failure and line 46).
C18_Capacity ==
  [][ /\ db'.map_size >= db.map_size
      /\ db'.map_size # db.map_size =>
           /\ pc = "w_grow"
           /\ txn.state = "aborted"
           /\ db'.map_size = 2 * db.map_size
           /\ call'.failures = call.failures
      /\ call'.first = call.first
      /\ call'.failures # call.failures =>
           /\ pc = "w_put"
           /\ pc' = "w_abort"
           /\ call'.failures = call.failures + 1
           /\ db'.map_size = db.map_size
      /\ LET pending == IF pc' \in {"w_abort", "w_grow"} THEN 1 ELSE 0
         IN db'.map_size = call'.first * Pow2(call'.failures - pending) ]_vars

\* C18's case: a call that returned after a doubling of its own on a handle whose
\* map size had been doubled by an earlier call
C18_Witness ==
  /\ pc = "w_ret"
  /\ call.retries >= 1
  /\ call.failures > call.retries
  /\ db.map_size = call.first * Pow2(call.failures)

\* the keys of the store that belong to case key K
StoredOf(K) == DOMAIN store \cap RecordKeys(K, MaxArrays + 1)

\* C19: in every state of a build on a store that was empty, the stored keys of each
\* case are a prefix of K_len, K_0, K_0_metadata, K_1, K_1_metadata, ...; and with
\* unique case keys the cases before the one being written are complete, the cases
\* after it have no key, and the store holds no other key.
C19_WritePrefix ==
  /\ \A c \in 1..Len(keys) :
       LET K == keys[c]
       IN \A q \in 0..MaxArrays :
            /\ K \o S_us \o <<48 + q>> \o S_metadata \in DOMAIN store =>
                 K \o S_us \o <<48 + q>> \in DOMAIN store
            /\ K \o S_us \o <<48 + q>> \in DOMAIN store =>
                 /\ K \o S_len \in DOMAIN store
                 /\ \A p \in 0..(q - 1) :
                      /\ K \o S_us \o <<48 + p>> \in DOMAIN store
                      /\ K \o S_us \o <<48 + p>> \o S_metadata \in DOMAIN store
  /\ DOMAIN store \subseteq UNION { StoredOf(keys[c]) : c \in 1..Len(keys) }
  /\ KeysUnique =>
       \A c \in 1..Len(keys) :
         /\ c <= idx =>
              /\ StoredOf(keys[c]) = RecordKeys(keys[c], Len(loads[c].arrays))
              /\ store[keys[c] \o S_len] = <<48 + Len(loads[c].arrays)>>
         /\ c > idx + 1 => StoredOf(keys[c]) = {}
         /\ (c = idx + 1 /\ StoredOf(keys[c]) # {}) =>
              /\ Len(loads) = c
              /\ StoredOf(keys[c]) \subseteq RecordKeys(keys[c], Len(loads[c].arrays))

\* C19's case: the second case has its first array in the store and not yet the
\* array's metadata, after a first case with arrays
C19_Witness ==
  /\ KeysUnique
  /\ idx = 1
  /\ Len(loads) = 2
  /\ Len(loads[1].arrays) >= 1
  /\ keys[2] \o S_us \o <<48>> \in DOMAIN store
  /\ keys[2] \o S_us \o <<48>> \o S_metadata \notin DOMAIN store

====
